---- MODULE Spec2Model ----
(***************************************************************************)
(* Model of ulmo.codwr.core: the Colorado DWR district resolver            *)
(* (get_water_district), the station aggregator (get_station) and the      *)
(* process-wide SUDS client (_get_client).                                 *)
(*                                                                         *)
(* Python values are tagged records; strings are sequences of characters   *)
(* so that lower-casing and substring search are computed, not assumed.    *)
(* The remote service is a small database (district catalog, transmitting  *)
(* stations, <abbrev, variable> rows) from which each SOAP response is     *)
(* derived; a response with no data is None, as the code's checks expect.  *)
(***************************************************************************)
EXTENDS Integers, Sequences, FiniteSets, TLC

VARIABLES
    catalog,        \* remote: GetWaterDistricts() rows, in service order
    stationDb,      \* remote: transmitting stations, in service order
    paramRows,      \* remote: <abbrev, variable> rows, in service order
    suds_client,    \* the module global _suds_client (NoClient = None)
    built,          \* number of suds Client objects constructed so far
    call            \* the call in progress / just returned, as the caller sees it

vars == <<catalog, stationDb, paramRows, suds_client, built, call>>

-----------------------------------------------------------------------------
\* Bounds of the model.

MaxCatalog == 2
MaxStations == 2
MaxRows == 2
MaxFilterLen == 2
MaxClients == 6

-----------------------------------------------------------------------------
\* Python values.

PyInt(n) == [t |-> "int", n |-> n, s |-> <<>>, items |-> <<>>]
PyStr(s) == [t |-> "str", n |-> 0, s |-> s, items |-> <<>>]
PyNone == [t |-> "NoneType", n |-> 0, s |-> <<>>, items |-> <<>>]
PyList(xs) == [t |-> "list", n |-> 0, s |-> <<>>, items |-> xs]

\* `if type(x) is not list: x = [x]`
AsList(x) == IF x.t # "list" THEN <<x>> ELSE x.items

SeqsUpTo(S, n) == UNION {[1..k -> S] : k \in 0..n}

\* str.lower on the letters the model uses
LowerChar(c) ==
    CASE c = "A" -> "a" [] c = "E" -> "e" [] c = "G" -> "g"
      [] c = "L" -> "l" [] c = "P" -> "p" [] c = "R" -> "r"
      [] OTHER -> c

str_lower(s) == [i \in 1..Len(s) |-> LowerChar(s[i])]

\* Python's `frag in text` for two strings
str_in(frag, text) ==
    \E off \in 0..(Len(text) - Len(frag)) :
        SubSeq(text, off + 1, off + Len(frag)) = frag

-----------------------------------------------------------------------------
\* The SUDS client and the remote service.

CODWR_WSDL_URL == "http://www.dwr.state.co.us/SMS_WebService/ColoradoWaterSMS.asmx?WSDL"
OtherUrl == "http://example.org/other?WSDL"
Urls == {CODWR_WSDL_URL, OtherUrl}

NoClient == [id |-> 0, url |-> "", cache |-> ""]

\* cache_duration arguments: None, the default ("default",), a custom tuple
CachePolicies == {"None", "default", "custom"}

\* The interpreter state a call threads through: the global client, the count
\* of constructed clients and the remote operations invoked so far.
Env(client, n, log) == [client |-> client, built |-> n, log |-> log]

Invoke(env, op, div, wd, abbrev) ==
    [env EXCEPT !.log = Append(@, [op |-> op, div |-> div, wd |-> wd, abbrev |-> abbrev])]

\* Faulty variant: a held client is reused whatever address it was built for.
_get_client_ignoring_url(wsdl_url, cache_duration, env) ==
    IF env.client = NoClient
    THEN [env EXCEPT !.client = [id |-> env.built + 1, url |-> wsdl_url,
                                 cache |-> IF cache_duration = "None" THEN "off"
                                           ELSE IF cache_duration = "default" THEN "1 day"
                                           ELSE "custom"],
                     !.built = @ + 1]
    ELSE env

_get_client(wsdl_url, cache_duration, env) ==
    IF env.client = NoClient \/ env.client.url # wsdl_url
    THEN [env EXCEPT !.client = [id |-> env.built + 1, url |-> wsdl_url,
                                 cache |-> IF cache_duration = "None" THEN "off"
                                           ELSE IF cache_duration = "default" THEN "1 day"
                                           ELSE "custom"],
                     !.built = @ + 1]
    ELSE env

-----------------------------------------------------------------------------
\* Outcomes of a call: a returned value, None, or a raised exception.

Returned(value, table, env) ==
    [status |-> "ok", error |-> "", value |-> value, table |-> table, env |-> env]
ReturnedNone(env) ==
    [status |-> "None", error |-> "", value |-> <<>>, table |-> FALSE, env |-> env]
Raised(error, env) ==
    [status |-> "raised", error |-> error, value |-> <<>>, table |-> FALSE, env |-> env]

\* `return x if len(x) > 0 else None`
ReturnIfAny(value, table, env) ==
    IF Len(value) > 0 THEN Returned(value, table, env) ELSE ReturnedNone(env)

-----------------------------------------------------------------------------
\* get_water_district

\* Faulty variant: the fragment is compared without lower-casing the district name.
district_matches_case_sensitive(wd, tgt) ==
    IF wd[1].t = "int"
    THEN wd = <<PyInt(0)>> \/ \E i \in 1..Len(wd) : wd[i].n = tgt.wd
    ELSE \E i \in 1..Len(wd) : str_in(str_lower(wd[i].s), tgt.waterDistrictName)

district_matches(wd, tgt) ==
    IF wd[1].t = "int"
    THEN wd = <<PyInt(0)>> \/ \E i \in 1..Len(wd) : wd[i].n = tgt.wd
    ELSE \E i \in 1..Len(wd) :
            str_in(str_lower(wd[i].s), str_lower(tgt.waterDistrictName))

\* the loop over wda.WaterDistrict, from row i on, appending to wds
RECURSIVE select_districts(_, _, _, _, _)
select_districts(rows, i, div, wd, wds) ==
    IF i > Len(rows) THEN wds
    ELSE LET wdx == rows[i]
             hit == /\ (div = <<PyInt(0)>> \/ \E k \in 1..Len(div) : div[k].n = wdx.div)
                    /\ district_matches(wd, wdx)
         IN select_districts(rows, i + 1, div, wd, IF hit THEN Append(wds, wdx) ELSE wds)

\* as_dataframe: "default" when the caller passes nothing, and then the
\* value the def line gives it
DistrictAsDataframeDefault == FALSE
StationAsDataframeDefault == FALSE
as_dataframe_value(opt, default) ==
    IF opt = "default" THEN default ELSE opt = "True"

get_water_district(div0, wd0, as_dataframe, cat, env) ==
    LET div == AsList(div0)
        wd == AsList(wd0)
    IN  IF ~ \A i \in 1..Len(div) : div[i].t = "int"
        THEN Raised("AssertionError", env)
        ELSE IF Len(wd) = 0
        THEN Raised("IndexError", env)
        ELSE IF ~ (wd[1].t \in {"int", "str"} /\ \A i \in 1..Len(wd) : wd[i].t = wd[1].t)
        THEN Raised("AssertionError", env)
        ELSE LET env1 == _get_client(CODWR_WSDL_URL, "default", env)
                 env2 == Invoke(env1, "GetWaterDistricts", 0, 0, PyNone)
                 wds == select_districts(cat, 1, div, wd, <<>>)
             IN  ReturnIfAny(wds, as_dataframe_value(as_dataframe, DistrictAsDataframeDefault), env2)

-----------------------------------------------------------------------------
\* Responses of the remote service, derived from its data.  An empty
\* response is None.

IsNone(response) == Len(response) = 0

\* GetSMSTransmittingStations(div, wd)
StationsOfDistrict(db, div, wd) == SelectSeq(db, LAMBDA s : s.div = div /\ s.wd = wd)

\* GetSMSTransmittingStationVariables(div, wd)
VariablesOfDistrict(db, rows, div, wd) ==
    SelectSeq(rows, LAMBDA r : \E i \in 1..Len(db) :
                  db[i].abbrev = r.abbrev /\ db[i].div = div /\ db[i].wd = wd)

\* GetSMSTransmittingStations(0, 0, a)
StationByAbbrev(db, a) == SelectSeq(db, LAMBDA s : a.t = "str" /\ s.abbrev = a.s)

\* GetSMSTransmittingStationVariables(div, wd, abbrev)
VariablesOfStation(rows, abbrev) == SelectSeq(rows, LAMBDA r : r.abbrev = abbrev)

-----------------------------------------------------------------------------
\* get_station

\* Faulty variant: each variable is put in front of the station's list.
RECURSIVE group_params_prepend(_, _, _)
group_params_prepend(sparms, j, params) ==
    IF j > Len(sparms) THEN params
    ELSE LET spd == sparms[j]
             had == IF spd.abbrev \in DOMAIN params THEN params[spd.abbrev] ELSE <<>>
         IN group_params_prepend(sparms, j + 1,
                [a \in DOMAIN params \cup {spd.abbrev} |->
                    IF a = spd.abbrev THEN <<spd.variable>> \o had ELSE params[a]])

\* params = {}: the rows compacted into {abbrev: [variable, ...]}
RECURSIVE group_params(_, _, _)
group_params(sparms, j, params) ==
    IF j > Len(sparms) THEN params
    ELSE LET spd == sparms[j]
             had == IF spd.abbrev \in DOMAIN params THEN params[spd.abbrev] ELSE <<>>
         IN group_params(sparms, j + 1,
                [a \in DOMAIN params \cup {spd.abbrev} |->
                    IF a = spd.abbrev THEN Append(had, spd.variable) ELSE params[a]])

\* the loop over sites.Station of one district
RECURSIVE add_sites(_, _, _, _, _, _)
add_sites(sites, j, d, params, stations, env) ==
    IF j > Len(sites) THEN Returned(stations, FALSE, env)
    ELSE LET sited == sites[j]
         IN IF sited.abbrev \notin DOMAIN params
            THEN Raised("KeyError", env)
            ELSE add_sites(sites, j + 1, d, params,
                     Append(stations,
                            [abbrev |-> sited.abbrev, div |-> sited.div, wd |-> sited.wd,
                             waterDistrictName |-> d.waterDistrictName,
                             parameters |-> params[sited.abbrev]]),
                     env)

\* Faulty variant: a district without a station list is skipped and the records
\* gathered so far are kept.
RECURSIVE by_district_partial(_, _, _, _, _, _)
by_district_partial(dists, i, db, rows, stations, env) ==
    IF i > Len(dists) THEN Returned(stations, FALSE, env)
    ELSE LET d == dists[i]
             env1 == Invoke(env, "GetSMSTransmittingStations", d.div, d.wd, PyNone)
             sites == StationsOfDistrict(db, d.div, d.wd)
             env2 == Invoke(env1, "GetSMSTransmittingStationVariables", d.div, d.wd, PyNone)
             sparms == VariablesOfDistrict(db, rows, d.div, d.wd)
             added == add_sites(sites, 1, d, group_params(sparms, 1, <<>>), stations, env2)
         IN IF IsNone(sites) THEN by_district_partial(dists, i + 1, db, rows, stations, env1)
            ELSE IF IsNone(sparms) THEN Raised("ValueError", env2)
            ELSE IF added.status # "ok" THEN added
            ELSE by_district_partial(dists, i + 1, db, rows, added.value, env2)

\* `if abbrev is None: for d in dists: ...`
RECURSIVE by_district(_, _, _, _, _, _)
by_district(dists, i, db, rows, stations, env) ==
    IF i > Len(dists) THEN Returned(stations, FALSE, env)
    ELSE LET d == dists[i]
             env1 == Invoke(env, "GetSMSTransmittingStations", d.div, d.wd, PyNone)
             sites == StationsOfDistrict(db, d.div, d.wd)
             env2 == Invoke(env1, "GetSMSTransmittingStationVariables", d.div, d.wd, PyNone)
             sparms == VariablesOfDistrict(db, rows, d.div, d.wd)
             added == add_sites(sites, 1, d, group_params(sparms, 1, <<>>), stations, env2)
         IN IF IsNone(sites) THEN ReturnedNone(env1)
            ELSE IF IsNone(sparms) THEN Raised("ValueError", env2)
            ELSE IF added.status # "ok" THEN added
            ELSE by_district(dists, i + 1, db, rows, added.value, env2)

\* dict(site) for a looked-up station, with the district name when a
\* resolved district has the station's (div, wd)
named_site(site, dists) ==
    LET base == [k \in {"abbrev", "div", "wd"} |-> site[k]]
        hits == {i \in 1..Len(dists) : dists[i].div = site.div /\ dists[i].wd = site.wd}
    IN IF hits = {} THEN base
       ELSE LET first == CHOOSE i \in hits : \A k \in hits : i <= k
            IN [k \in DOMAIN base \cup {"waterDistrictName"} |->
                   IF k = "waterDistrictName" THEN dists[first].waterDistrictName
                   ELSE base[k]]

\* the loop over sparms.StationVariables of one looked-up station
RECURSIVE attach_params(_, _, _, _)
attach_params(sited, sparms, j, env) ==
    IF j > Len(sparms) THEN Returned(<<sited>>, FALSE, env)
    ELSE IF "parameters" \notin DOMAIN sited
    THEN Raised("KeyError", env)
    ELSE IF sparms[j].abbrev # sited.abbrev
    THEN Raised("AssertionError", env)
    ELSE attach_params([sited EXCEPT !.parameters = Append(@, sparms[j].variable)],
                       sparms, j + 1, env)

\* `else: for a in abbrev: ...`; nothing is appended to stations
RECURSIVE by_abbrev(_, _, _, _, _, _, _)
by_abbrev(abbrev, i, dists, db, rows, stations, env) ==
    IF i > Len(abbrev) THEN Returned(stations, FALSE, env)
    ELSE LET a == abbrev[i]
             env1 == Invoke(env, "GetSMSTransmittingStations", 0, 0, a)
             site == StationByAbbrev(db, a)
             sited == named_site(site[1], dists)
             env2 == Invoke(env1, "GetSMSTransmittingStationVariables",
                            sited.div, sited.wd, PyStr(sited.abbrev))
             sparms == VariablesOfStation(rows, sited.abbrev)
             attached == attach_params(sited, sparms, 1, env2)
         IN IF IsNone(site) THEN by_abbrev(abbrev, i + 1, dists, db, rows, stations, env1)
            ELSE IF IsNone(sparms) THEN Raised("ValueError", env2)
            ELSE IF attached.status # "ok" THEN attached
            ELSE by_abbrev(abbrev, i + 1, dists, db, rows, stations, env2)

get_station(div0, wd0, abbrev0, as_dataframe, cat, db, rows, env) ==
    LET div == PyList(AsList(div0))
        wd == PyList(AsList(wd0))
        scalar == abbrev0 # PyNone /\ abbrev0.t # "list"
        abbrev == IF scalar THEN <<abbrev0>> ELSE abbrev0.items
    IN  IF scalar /\ ~ \A i \in 1..Len(abbrev) : abbrev[i].t = "str"
        THEN Raised("AssertionError", env)
        ELSE LET env1 == _get_client(CODWR_WSDL_URL, "default", env)
                 dists == get_water_district(div, wd, "False", cat, env1)
                 loop == IF abbrev0 = PyNone
                         THEN by_district(dists.value, 1, db, rows, <<>>, dists.env)
                         ELSE by_abbrev(abbrev, 1, dists.value, db, rows, <<>>, dists.env)
             IN  IF dists.status = "raised" THEN dists
                 ELSE IF dists.status = "None" THEN ReturnedNone(dists.env)
                 ELSE IF loop.status # "ok" THEN loop
                 ELSE ReturnIfAny(loop.value,
                                  as_dataframe_value(as_dataframe, StationAsDataframeDefault) = TRUE,
                                  loop.env)

-----------------------------------------------------------------------------
\* The state machine: one caller at a time; a call runs to completion and its
\* outcome is handed back before the next call starts.

Idle ==
    [op |-> "idle", div |-> PyNone, wd |-> PyNone, abbrev |-> PyNone,
     as_dataframe |-> "default", url |-> "", cache |-> "",
     status |-> "", error |-> "", value |-> <<>>, table |-> FALSE,
     log |-> <<>>, clientBefore |-> NoClient, builtBefore |-> 0]

Finish(op, div, wd, abbrev, asdf, url, cache, out) ==
    /\ suds_client' = out.env.client
    /\ built' = out.env.built
    /\ call' = [op |-> op, div |-> div, wd |-> wd, abbrev |-> abbrev,
                as_dataframe |-> asdf, url |-> url, cache |-> cache,
                status |-> out.status, error |-> out.error, value |-> out.value,
                table |-> out.table, log |-> out.env.log,
                clientBefore |-> suds_client, builtBefore |-> built]
    /\ UNCHANGED <<catalog, stationDb, paramRows>>

\* the caller takes the result; the module global survives
Return ==
    /\ call.op # "idle"
    /\ call' = Idle
    /\ UNCHANGED <<catalog, stationDb, paramRows, suds_client, built>>

\* --- remote data the model draws from

Districts ==
    { [div |-> 1, wd |-> 1, waterDistrictName |-> <<"P", "l", "a", "t", "t", "e">>],
      [div |-> 1, wd |-> 2, waterDistrictName |-> <<"G", "r", "e", "e">>],
      [div |-> 2, wd |-> 5, waterDistrictName |-> <<"A", "r", "k">>] }

Injective(f) == \A i, j \in DOMAIN f : f[i] = f[j] => i = j

\* a catalog lists each district once and is never empty
Catalogs == {c \in SeqsUpTo(Districts, MaxCatalog) : Len(c) > 0 /\ Injective(c)}

\* --- filters the resolver is called with

DivElems == {PyInt(0), PyInt(1), PyNone}
WdElems == {PyInt(0), PyInt(1), PyNone,
            PyStr(<<"P", "L">>), PyStr(<<"r">>), PyStr(<<"l", "a", "t", "e">>)}

FilterArgs(elems) == elems \cup {PyList(xs) : xs \in SeqsUpTo(elems, MaxFilterLen)}

AsDataframeArgs == {"default", "True", "False"}

CallGetWaterDistrict ==
    /\ call.op = "idle"
    /\ \E div \in FilterArgs(DivElems), wd \in FilterArgs(WdElems), asdf \in AsDataframeArgs :
         Finish("get_water_district", div, wd, PyNone, asdf, "", "",
                get_water_district(div, wd, asdf, catalog, Env(suds_client, built, <<>>)))

CallGetClient ==
    /\ call.op = "idle"
    /\ built < MaxClients
    /\ \E url \in Urls, cache \in CachePolicies :
         LET env == _get_client(url, cache, Env(suds_client, built, <<>>))
         IN  Finish("_get_client", PyNone, PyNone, PyNone, "default", url, cache,
                    Returned(<<env.client>>, FALSE, env))

InitResolver ==
    /\ catalog \in Catalogs
    /\ stationDb = <<>>
    /\ paramRows = <<>>
    /\ suds_client = NoClient
    /\ built = 0
    /\ call = Idle

NextResolver == CallGetWaterDistrict \/ Return

SpecResolver == InitResolver /\ [][NextResolver]_vars

InitSession ==
    /\ catalog = <<>>
    /\ stationDb = <<>>
    /\ paramRows = <<>>
    /\ suds_client = NoClient
    /\ built = 0
    /\ call = Idle

NextSession == CallGetClient \/ Return

SpecSession == InitSession /\ [][NextSession]_vars

\* --- stations and parameter rows of the remote service

A1 == <<"A", "1">>
A2 == <<"A", "2">>
Missing == <<"Z", "Z">>
Abbrevs == {A1, A2}
Variables == {<<"Q">>, <<"T">>}

\* transmitting stations sit in division 1; each abbreviation is listed once
SiteRecords == {[abbrev |-> a, div |-> d.div, wd |-> d.wd] : a \in Abbrevs,
                d \in {x \in Districts : x.div = 1}}
StationDbs == {db \in SeqsUpTo(SiteRecords, MaxStations) :
                  \A i, j \in DOMAIN db : db[i].abbrev = db[j].abbrev => i = j}

\* rows are published for listed stations only, each <abbrev, variable> once
RowsFor(db) ==
    {rows \in SeqsUpTo({[abbrev |-> db[i].abbrev, variable |-> v] :
                            i \in DOMAIN db, v \in Variables}, MaxRows) :
        Injective(rows)}

\* --- arguments the aggregator is called with

StationDivArgs == {PyInt(0), PyList(<<PyInt(1)>>), PyNone}
StationWdArgs == {PyInt(0), PyInt(7), PyStr(<<"R">>), PyList(<<PyInt(1), PyStr(<<"P", "L">>)>>)}
StationAbbrevArgs ==
    {PyNone, PyStr(A1), PyInt(5),
     PyList(<<PyStr(A1), PyStr(Missing), PyStr(A2)>>),
     PyList(<<PyStr(Missing), PyInt(5)>>)}

CallGetStation ==
    /\ call.op = "idle"
    /\ \E div \in StationDivArgs, wd \in StationWdArgs, abbrev \in StationAbbrevArgs,
          asdf \in {"default", "True"} :
         Finish("get_station", div, wd, abbrev, asdf, "", "",
                get_station(div, wd, abbrev, asdf, catalog, stationDb, paramRows,
                            Env(suds_client, built, <<>>)))

InitStation ==
    /\ catalog \in Catalogs
    /\ stationDb \in StationDbs
    /\ paramRows \in RowsFor(stationDb)
    /\ suds_client = NoClient
    /\ built = 0
    /\ call = Idle

NextStation == CallGetStation \/ Return

SpecStation == InitStation /\ [][NextStation]_vars

-----------------------------------------------------------------------------
\* Vocabulary of the properties, stated on the caller's view of a call.

Items(arg) == AsList(arg)

\* the all-match sentinel 0, given bare or as the one-element list [0]
IsSentinel(arg) == arg = PyInt(0) \/ arg = PyList(<<PyInt(0)>>)

AllOfType(arg, type) == \A i \in 1..Len(Items(arg)) : Items(arg)[i].t = type

ValidDivisionFilter(arg) == AllOfType(arg, "int")
ValidDistrictFilter(arg) ==
    Len(Items(arg)) > 0 /\ (AllOfType(arg, "int") \/ AllOfType(arg, "str"))

\* a district filter holding both ids and name fragments
MixedDistrictFilter(arg) ==
    /\ \E i \in 1..Len(Items(arg)) : Items(arg)[i].t = "int"
    /\ \E i \in 1..Len(Items(arg)) : Items(arg)[i].t = "str"

SameLetter(a, b) == a = b \/ LowerChar(a) = b \/ a = LowerChar(b)

CaselessSubstring(frag, name) ==
    \E off \in 0..(Len(name) - Len(frag)) :
        \A j \in 1..Len(frag) : SameLetter(frag[j], name[off + j])

EntryMatches(div, wd, e) ==
    /\ IsSentinel(div) \/ \E i \in 1..Len(Items(div)) : Items(div)[i].n = e.div
    /\ IF AllOfType(wd, "int")
       THEN IsSentinel(wd) \/ \E i \in 1..Len(Items(wd)) : Items(wd)[i].n = e.wd
       ELSE \E i \in 1..Len(Items(wd)) : CaselessSubstring(Items(wd)[i].s, e.waterDistrictName)

MatchingDistricts(div, wd) == SelectSeq(catalog, LAMBDA e : EntryMatches(div, wd, e))

Exists(abbrev) == \E i \in 1..Len(stationDb) : stationDb[i].abbrev = abbrev
HasRows(abbrev) == \E i \in 1..Len(paramRows) : paramRows[i].abbrev = abbrev

VariableNames(abbrev) ==
    LET rows == SelectSeq(paramRows, LAMBDA r : r.abbrev = abbrev)
    IN [i \in 1..Len(rows) |-> rows[i].variable]

\* the records a district contributes: one per listed station, in list order
ExpectedRecords(d) ==
    LET sites == SelectSeq(stationDb, LAMBDA s : s.div = d.div /\ s.wd = d.wd)
    IN [j \in 1..Len(sites) |->
           [abbrev |-> sites[j].abbrev, div |-> d.div, wd |-> d.wd,
            waterDistrictName |-> d.waterDistrictName,
            parameters |-> VariableNames(sites[j].abbrev)]]

\* the station list has data and every listed station has a parameter row
Healthy(d) ==
    /\ \E i \in 1..Len(stationDb) : stationDb[i].div = d.div /\ stationDb[i].wd = d.wd
    /\ \A i \in 1..Len(stationDb) :
          (stationDb[i].div = d.div /\ stationDb[i].wd = d.wd) => HasRows(stationDb[i].abbrev)

RECURSIVE Concatenated(_, _)
Concatenated(dists, k) ==
    IF k > Len(dists) THEN <<>>
    ELSE ExpectedRecords(dists[k]) \o Concatenated(dists, k + 1)

RecordsOf(value, d) == SelectSeq(value, LAMBDA r : r.div = d.div /\ r.wd = d.wd)

ModeACall ==
    /\ call.op = "get_station"
    /\ call.abbrev = PyNone
    /\ ValidDivisionFilter(call.div)
    /\ ValidDistrictFilter(call.wd)

ModeBCall ==
    /\ call.op = "get_station"
    /\ call.abbrev # PyNone

StationLookups ==
    {i \in 1..Len(call.log) :
        call.log[i].op = "GetSMSTransmittingStations" /\ call.log[i].abbrev # PyNone}

-----------------------------------------------------------------------------
\* C1: Mode B, called with a list of abbreviation strings of which some
\* exist (with parameter rows) and some do not, returns one Station record
\* per existing abbreviation, in request order, without error.
C1_ModeBReturnsExistingStations ==
    ( /\ ModeBCall
      /\ call.abbrev.t = "list"
      /\ AllOfType(call.abbrev, "str")
      /\ IsSentinel(call.div) /\ IsSentinel(call.wd)
      /\ \E i \in 1..Len(Items(call.abbrev)) : Exists(Items(call.abbrev)[i].s)
      /\ \A i \in 1..Len(Items(call.abbrev)) :
            Exists(Items(call.abbrev)[i].s) => HasRows(Items(call.abbrev)[i].s) )
    => /\ call.status = "ok"
       /\ [i \in 1..Len(call.value) |-> call.value[i].abbrev]
            = LET found == SelectSeq(Items(call.abbrev), LAMBDA a : Exists(a.s))
              IN [i \in 1..Len(found) |-> found[i].s]

\* C2 as stated: every resolved district whose station list has N stations,
\* each with a parameter row, has exactly its N records in the output.
C2_EveryHealthyDistrictIsInTheOutput ==
    ModeACall =>
        \A k \in 1..Len(MatchingDistricts(call.div, call.wd)) :
            LET d == MatchingDistricts(call.div, call.wd)[k]
            IN Healthy(d) =>
                  /\ call.status = "ok"
                  /\ RecordsOf(call.value, d) = ExpectedRecords(d)

\* C2 amended: when every resolved district has a station list whose
\* stations all have a parameter row, the output is the concatenation, in
\* resolved-district order, of each district's records in station-list
\* order, each with the district's name and the station's variable names in
\* row order.
C2_HealthyDistrictsAreConcatenated ==
    ( /\ ModeACall
      /\ Len(MatchingDistricts(call.div, call.wd)) > 0
      /\ \A k \in 1..Len(MatchingDistricts(call.div, call.wd)) :
            Healthy(MatchingDistricts(call.div, call.wd)[k]) )
    => /\ call.status = "ok"
       /\ call.value = Concatenated(MatchingDistricts(call.div, call.wd), 1)
       /\ \A i \in 1..Len(call.value) : Len(call.value[i].parameters) > 0

C2_TwoDistrictsAggregated ==
    /\ ModeACall
    /\ call.status = "ok"
    /\ Len(MatchingDistricts(call.div, call.wd)) = 2
    /\ Len(call.value) = 2
    /\ call.value[1].waterDistrictName # call.value[2].waterDistrictName

\* C3: with valid filters get_water_district returns exactly the matching
\* catalog entries, in catalog order, and None when nothing matches.
C3_ResolverReturnsExactlyTheMatches ==
    ( /\ call.op = "get_water_district"
      /\ ValidDivisionFilter(call.div)
      /\ ValidDistrictFilter(call.wd) )
    => IF MatchingDistricts(call.div, call.wd) = <<>>
       THEN call.status = "None"
       ELSE call.status = "ok" /\ call.value = MatchingDistricts(call.div, call.wd)

C3_FragmentSelectsSomeDistricts ==
    /\ call.op = "get_water_district"
    /\ call.wd = PyList(<<PyStr(<<"P", "L">>), PyStr(<<"r">>)>>)
    /\ call.status = "ok"
    /\ Len(catalog) = 2
    /\ Len(call.value) = 2

\* C4: a mixed district filter or a non-integer division filter fails with
\* the filter-type error before any remote operation and before the client
\* handle is constructed or replaced.
C4_InvalidFilterFailsBeforeAnything ==
    ( /\ call.op \in {"get_water_district", "get_station"}
      /\ MixedDistrictFilter(call.wd) \/ ~ ValidDivisionFilter(call.div) )
    => /\ call.status = "raised"
       /\ call.error = "AssertionError"
       /\ call.log = <<>>
       /\ suds_client = call.clientBefore
       /\ built = call.builtBefore

\* C5: an abbrevs value, scalar or list, with a non-string element fails
\* with the filter-type error and no station lookup is issued.
C5_NonStringAbbrevIsRejected ==
    ( /\ ModeBCall
      /\ ~ AllOfType(call.abbrev, "str") )
    => /\ call.status = "raised"
       /\ call.error = "AssertionError"
       /\ StationLookups = {}

\* C6: _get_client keeps one handle; the same address returns the held
\* handle without constructing one, another address constructs a new
\* handle that replaces it, and the held handle is always for the address
\* of the latest call.
C6_OneHandlePerAddress ==
    call.op = "_get_client" =>
        /\ suds_client # NoClient
        /\ suds_client.url = call.url
        /\ call.value = <<suds_client>>
        /\ (call.clientBefore # NoClient /\ call.clientBefore.url = call.url)
              => suds_client = call.clientBefore /\ built = call.builtBefore
        /\ (call.clientBefore = NoClient \/ call.clientBefore.url # call.url)
              => /\ built = call.builtBefore + 1
                 /\ suds_client.id = built
                 /\ suds_client.id # call.clientBefore.id

C6_HandleReplaced ==
    /\ call.op = "_get_client"
    /\ call.clientBefore # NoClient
    /\ call.clientBefore.url # call.url
    /\ call.builtBefore >= 2

\* C7: get_water_district called with a division only, against a catalog
\* holding a district of that division, returns a table.
C7_DefaultResultIsATable ==
    ( /\ call.op = "get_water_district"
      /\ call.as_dataframe = "default"
      /\ call.wd = PyInt(0)
      /\ call.div.t = "int" /\ call.div.n # 0
      /\ \E i \in 1..Len(catalog) : catalog[i].div = call.div.n )
    => call.status = "ok" /\ call.table

\* C8: a division or district filter given as 0, None or an empty list
\* restricts nothing: the call succeeds with the whole catalog.
C8_AbsentOrEmptyFilterMatchesAll ==
    ( /\ call.op = "get_water_district"
      /\ call.div \in {PyInt(0), PyNone, PyList(<<>>)}
      /\ call.wd \in {PyInt(0), PyNone, PyList(<<>>)} )
    => call.status = "ok" /\ call.value = catalog

\* C9: with an abbreviation filter the outcome of get_station is the same
\* for every valid value of the division and district filters.
C9_AbbrevBypassesDistrictFilters ==
    ( /\ ModeBCall
      /\ AllOfType(call.abbrev, "str")
      /\ ValidDivisionFilter(call.div)
      /\ ValidDistrictFilter(call.wd) )
    => \A div \in StationDivArgs, wd \in StationWdArgs :
          (ValidDivisionFilter(div) /\ ValidDistrictFilter(wd)) =>
              LET other == get_station(div, wd, call.abbrev, call.as_dataframe,
                                       catalog, stationDb, paramRows,
                                       Env(call.clientBefore, call.builtBefore, <<>>))
              IN other.status = call.status /\ other.value = call.value

\* C10: in Mode A a station-list call that returns no data ends the call:
\* it returns None without error, with no record, and queries nothing more.
C10_MissingStationListIsAHardMiss ==
    ( /\ call.op = "get_station"
      /\ call.abbrev = PyNone )
    => \A i \in 1..Len(call.log) :
          ( /\ call.log[i].op = "GetSMSTransmittingStations"
            /\ ~ \E j \in 1..Len(stationDb) :
                    stationDb[j].div = call.log[i].div /\ stationDb[j].wd = call.log[i].wd )
          => /\ call.status = "None"
             /\ call.value = <<>>
             /\ i = Len(call.log)

C10_MissAfterAnEarlierDistrict ==
    /\ call.op = "get_station"
    /\ call.abbrev = PyNone
    /\ call.status = "None"
    /\ Len(call.log) = 4
    /\ call.log[2].op = "GetSMSTransmittingStations"
    /\ HasRows(stationDb[1].abbrev)
    /\ call.log[4].op = "GetSMSTransmittingStations"

====
